---- MODULE Spec2Model ----
(***************************************************************************)
(* Sidecar process supervisor of desktop/src-tauri/src/lib.rs:             *)
(* BackendState behind one tokio Mutex, the commands start_backend,        *)
(* stop_backend, get_backend_status and get_backend_port, the task that    *)
(* start_backend spawns to drain a sidecar's CommandEvent channel, and the *)
(* task that run()'s setup hook spawns.                                    *)
(*                                                                         *)
(* Every await point of the source separates two actions.  A critical      *)
(* section that contains no await and no I/O (the running check, the       *)
(* commit, the event task's reset, the two getters) is one action guarded  *)
(* by the lock being free; stop_backend and the setup task keep the guard  *)
(* across a call (kill, pick_unused_port), so there the lock is taken in   *)
(* one action and released in a later one.                                 *)
(***************************************************************************)
EXTENDS Integers, Sequences, FiniteSets, TLC

\* ---------------------------------------------------------------- bounds
NumCallers == 2     \* concurrent command invocations the host may have open
MaxCalls == 3       \* command invocations in one behaviour
MaxProcs == 2       \* sidecar processes spawned in one behaviour
MaxLines == 1       \* output events the sidecars write in one behaviour
MaxFairCalls == 2   \* command invocations in one behaviour of FairSpec

\* ------------------------------------------------------ program constants
DefaultPort == 8000         \* BackendState::default, and unwrap_or(8000)
MaxU16 == 65535             \* port: u16

Callers == 1..NumCallers
Procs == 1..MaxProcs

\* Option<...>::None for the child handle, a picked port and an exit code.
None == 0
NoPort == 0
NoCode == -1

\* Bytes of one output line: valid UTF-8 or not.
LineBytes == {"utf8", "raw"}

\* What portpicker::pick_unused_port() can hand back: Some(port) or None.
AllocPorts == {15000}
PickResults == AllocPorts \cup {NoPort}

\* Exit codes a sidecar that exits on its own reports (a killed one has none).
ExitCodes == {1}

\* CommandEvent::Stdout(line), Stderr(line) and Error(message).
OutputEvents ==
    [kind : {"Stdout", "Stderr"}, code : {NoCode}, line : LineBytes]
        \cup {[kind |-> "Error", code |-> NoCode, line |-> ""]}

\* String::from_utf8_lossy(&line).to_string(): valid text is kept, invalid
\* sequences become U+FFFD.
FromUtf8Lossy(line) == IF line = "utf8" THEN "utf8" ELSE "lossy"

\* Faulty variant of UnwrapOr: falls back to port 0 (unwrap_or_default()).
UnwrapOrZero(r) == IF r = NoPort THEN 0 ELSE r

\* pick_unused_port().unwrap_or(8000)
UnwrapOr(r) == IF r = NoPort THEN DefaultPort ELSE r

\* Lock owners.
Free == <<"free", 0>>
CallerTask(t) == <<"command", t>>
SetupTask == <<"setup", 0>>

Ops == {"start", "stop", "status", "port"}

VARIABLES
    child,      \* BackendState.child: None or the process the handle refers to
    port,       \* BackendState.port
    running,    \* BackendState.running
    lock,       \* owner of the tokio Mutex
    pc,         \* pc[t]: where command invocation slot t is
    lport,      \* lport[t]: start_backend's local `port`
    lchild,     \* lchild[t]: start_backend's local `child` / stop_backend's taken child
    res,        \* res[t]: what the last command of slot t returned
    ncalls,     \* command invocations so far
    proc,       \* proc[p]: the sidecar processes (state, --port argument, exit code)
    chan,       \* chan[p]: CommandEvents sent on p's channel and not yet received
    bridge,     \* bridge[p]: where the event task of p is
    emitted,    \* emitted[p]: events the event task of p emitted to the app
    setup,      \* where the setup task is
    nlines      \* output events written so far

vars == <<child, port, running, lock, pc, lport, lchild, res, ncalls,
          proc, chan, bridge, emitted, setup, nlines>>

backendVars == <<child, port, running>>
procVars == <<proc, chan, bridge, emitted, nlines>>
localVars == <<lport, lchild>>

NoResult == [op |-> "none", ok |-> TRUE, err |-> "", port |-> 0, running |-> FALSE]
OkPort(op, p) == [op |-> op, ok |-> TRUE, err |-> "", port |-> p, running |-> FALSE]
OkUnit(op) == [op |-> op, ok |-> TRUE, err |-> "", port |-> 0, running |-> FALSE]
OkStatus(r, p) == [op |-> "status", ok |-> TRUE, err |-> "", port |-> p, running |-> r]
Failed(op, e) == [op |-> op, ok |-> FALSE, err |-> e, port |-> 0, running |-> FALSE]

Unborn == [state |-> "unborn", arg |-> 0, code |-> NoCode]

Spawned == {p \in Procs : proc[p].state # "unborn"}
Alive == {p \in Procs : proc[p].state = "alive"}
\* start_backend invocations that may still spawn
StartsInFlight == {t \in Callers : pc[t] \in {"start_check", "start_spawn"}}

\* BackendState::default() behind the Mutex, nothing invoked, no sidecar.
Init ==
    /\ child = None
    /\ port = DefaultPort
    /\ running = FALSE
    /\ lock = Free
    /\ pc = [t \in Callers |-> "idle"]
    /\ lport = [t \in Callers |-> 0]
    /\ lchild = [t \in Callers |-> None]
    /\ res = [t \in Callers |-> NoResult]
    /\ ncalls = 0
    /\ proc = [p \in Procs |-> Unborn]
    /\ chan = [p \in Procs |-> <<>>]
    /\ bridge = [p \in Procs |-> "none"]
    /\ emitted = [p \in Procs |-> <<>>]
    /\ setup = "sleep"
    /\ nlines = 0

\* ------------------------------------------------------------ invocation
\* The host invokes a command on a free slot.
Invoke(t, op) ==
    /\ pc[t] = "idle"
    /\ \A u \in Callers : u < t => pc[u] # "idle"
    /\ ncalls < MaxCalls
    /\ op = "start" => Cardinality(Spawned) + Cardinality(StartsInFlight) < MaxProcs
    /\ pc' = [pc EXCEPT ![t] =
                CASE op = "start" -> "start_check"
                  [] op = "stop" -> "stop_lock"
                  [] op = "status" -> "status"
                  [] op = "port" -> "port"]
    /\ ncalls' = ncalls + 1
    /\ res' = [res EXCEPT ![t] = NoResult]
    /\ lport' = [lport EXCEPT ![t] = 0]
    /\ lchild' = [lchild EXCEPT ![t] = None]
    /\ UNCHANGED <<backendVars, lock, procVars, setup>>

\* ---------------------------------------------------------- start_backend
\* The id the next spawned sidecar gets.
NewProc == CHOOSE p \in Procs : proc[p].state = "unborn" /\ \A q \in Procs : q < p => proc[q].state # "unborn"

\* Lines 49-54: lock, read running, return Ok(backend.port) or go on; unlock.
start_backend_check(t) ==
    /\ pc[t] = "start_check"
    /\ lock = Free
    /\ IF running
          THEN /\ res' = [res EXCEPT ![t] = OkPort("start", port)]
               /\ pc' = [pc EXCEPT ![t] = "idle"]
          ELSE /\ pc' = [pc EXCEPT ![t] = "start_spawn"]
               /\ UNCHANGED res
    /\ UNCHANGED <<backendVars, lock, localVars, ncalls, procVars, setup>>

\* Faulty variant of start_backend_spawn_err: the picked port is stored in the
\* state before the spawn is known to have succeeded.
start_backend_spawn_err_stores_port(t) ==
    /\ pc[t] = "start_spawn"
    /\ lock = Free
    /\ \E r \in PickResults : port' = UnwrapOr(r)
    /\ res' = [res EXCEPT ![t] = Failed("start", "Failed to spawn sidecar")]
    /\ pc' = [pc EXCEPT ![t] = "idle"]
    /\ UNCHANGED <<child, running, lock, localVars, ncalls, procVars, setup>>

\* Lines 57-68, failing: the port is picked, then sidecar() or spawn() returns
\* Err and `?` returns it.
start_backend_spawn_err(t) ==
    /\ pc[t] = "start_spawn"
    /\ \E e \in {"Failed to create sidecar command", "Failed to spawn sidecar"} :
          res' = [res EXCEPT ![t] = Failed("start", e)]
    /\ pc' = [pc EXCEPT ![t] = "idle"]
    /\ UNCHANGED <<backendVars, lock, ncalls, procVars, setup>>
    /\ lport' = [lport EXCEPT ![t] = 0]
    /\ lchild' = [lchild EXCEPT ![t] = None]

\* Lines 57-68, succeeding: the port is picked (8000 when the picker has none),
\* a new process runs with ["--port", port] and the caller holds its channel
\* and its CommandChild.
start_backend_spawn_ok(t) ==
    /\ pc[t] = "start_spawn"
    /\ \E r \in PickResults :
          /\ lport' = [lport EXCEPT ![t] = UnwrapOr(r)]
          /\ proc' = [proc EXCEPT ![NewProc] = [state |-> "alive", arg |-> UnwrapOr(r), code |-> NoCode]]
    /\ lchild' = [lchild EXCEPT ![t] = NewProc]
    /\ pc' = [pc EXCEPT ![t] = "start_commit"]
    /\ UNCHANGED <<backendVars, lock, res, ncalls, chan, bridge, emitted, nlines, setup>>

\* Faulty variant of start_backend_commit: running is checked again under the
\* lock and a start that lost the race leaves the state alone.
start_backend_commit_unless_running(t) ==
    /\ pc[t] = "start_commit"
    /\ lock = Free
    /\ IF running
          THEN UNCHANGED backendVars
          ELSE child' = lchild[t] /\ port' = lport[t] /\ running' = TRUE
    /\ pc' = [pc EXCEPT ![t] = "start_attach"]
    /\ UNCHANGED <<lock, localVars, res, ncalls, procVars, setup>>

\* Lines 71-76: lock; child = Some(child); port = port; running = true; unlock.
start_backend_commit(t) ==
    /\ pc[t] = "start_commit"
    /\ lock = Free
    /\ child' = lchild[t]
    /\ port' = lport[t]
    /\ running' = TRUE
    /\ pc' = [pc EXCEPT ![t] = "start_attach"]
    /\ UNCHANGED <<lock, localVars, res, ncalls, procVars, setup>>

\* Lines 79-102: tauri::async_runtime::spawn of the event task over rx.
start_backend_attach(t) ==
    /\ pc[t] = "start_attach"
    /\ bridge' = [bridge EXCEPT ![lchild[t]] = "recv"]
    /\ pc' = [pc EXCEPT ![t] = "start_sleep"]
    /\ UNCHANGED <<backendVars, lock, localVars, res, ncalls, proc, chan, emitted, nlines, setup>>

\* Lines 105-107: the 2 s sleep is over; Ok(port).
start_backend_return(t) ==
    /\ pc[t] = "start_sleep"
    /\ res' = [res EXCEPT ![t] = OkPort("start", lport[t])]
    /\ pc' = [pc EXCEPT ![t] = "idle"]
    /\ UNCHANGED <<backendVars, lock, ncalls, procVars, setup>>
    /\ lport' = [lport EXCEPT ![t] = 0]
    /\ lchild' = [lchild EXCEPT ![t] = None]

\* ----------------------------------------------------------- stop_backend
\* Lines 113-115: lock (kept); backend.child.take().
stop_backend_lock(t) ==
    /\ pc[t] = "stop_lock"
    /\ lock = Free
    /\ lock' = CallerTask(t)
    /\ lchild' = [lchild EXCEPT ![t] = child]
    /\ child' = None
    /\ pc' = [pc EXCEPT ![t] = IF child # None THEN "stop_kill" ELSE "stop_finish"]
    /\ UNCHANGED <<port, running, lport, res, ncalls, procVars, setup>>

\* Line 116, kill() returns Ok: a live process is terminated and its channel
\* gets the Terminated event (no exit code for a killed process).
stop_backend_kill_ok(t) ==
    /\ pc[t] = "stop_kill"
    /\ LET p == lchild[t] IN
          IF proc[p].state = "alive"
             THEN /\ proc' = [proc EXCEPT ![p].state = "killed"]
                  /\ chan' = [chan EXCEPT ![p] = Append(@, [kind |-> "Terminated", code |-> NoCode, line |-> ""])]
             ELSE UNCHANGED <<proc, chan>>
    /\ pc' = [pc EXCEPT ![t] = "stop_finish"]
    /\ UNCHANGED <<backendVars, lock, localVars, res, ncalls, bridge, emitted, nlines, setup>>

\* Faulty variant of stop_backend_kill_err: the guard is not dropped on the
\* error return.
stop_backend_kill_err_keeps_lock(t) ==
    /\ pc[t] = "stop_kill"
    /\ res' = [res EXCEPT ![t] = Failed("stop", "Failed to kill backend")]
    /\ pc' = [pc EXCEPT ![t] = "idle"]
    /\ UNCHANGED <<backendVars, lock, ncalls, procVars, setup>>
    /\ lport' = [lport EXCEPT ![t] = 0]
    /\ lchild' = [lchild EXCEPT ![t] = None]

\* Line 116, kill() returns Err: `?` returns it; the guard is dropped on the
\* way out and line 119 is not reached.
stop_backend_kill_err(t) ==
    /\ pc[t] = "stop_kill"
    /\ res' = [res EXCEPT ![t] = Failed("stop", "Failed to kill backend")]
    /\ lock' = Free
    /\ pc' = [pc EXCEPT ![t] = "idle"]
    /\ UNCHANGED <<backendVars, ncalls, procVars, setup>>
    /\ lport' = [lport EXCEPT ![t] = 0]
    /\ lchild' = [lchild EXCEPT ![t] = None]

\* Faulty variant of stop_backend_finish: line 119 is missing.
stop_backend_finish_keeps_running(t) ==
    /\ pc[t] = "stop_finish"
    /\ lock' = Free
    /\ res' = [res EXCEPT ![t] = OkUnit("stop")]
    /\ pc' = [pc EXCEPT ![t] = "idle"]
    /\ lport' = [lport EXCEPT ![t] = 0]
    /\ lchild' = [lchild EXCEPT ![t] = None]
    /\ UNCHANGED <<backendVars, ncalls, procVars, setup>>

\* Lines 119-120: backend.running = false; Ok(()); the guard is dropped.
stop_backend_finish(t) ==
    /\ pc[t] = "stop_finish"
    /\ running' = FALSE
    /\ lock' = Free
    /\ res' = [res EXCEPT ![t] = OkUnit("stop")]
    /\ pc' = [pc EXCEPT ![t] = "idle"]
    /\ UNCHANGED <<child, port, ncalls, procVars, setup>>
    /\ lport' = [lport EXCEPT ![t] = 0]
    /\ lchild' = [lchild EXCEPT ![t] = None]

\* ------------------------------------------------------------ the getters
\* Faulty variant of get_backend_status: running is derived from the handle
\* instead of being read from the flag.
get_backend_status_from_child(t) ==
    /\ pc[t] = "status"
    /\ lock = Free
    /\ res' = [res EXCEPT ![t] = OkStatus(child # None, port)]
    /\ pc' = [pc EXCEPT ![t] = "idle"]
    /\ UNCHANGED <<backendVars, lock, localVars, ncalls, procVars, setup>>

\* Lines 125-131.
get_backend_status(t) ==
    /\ pc[t] = "status"
    /\ lock = Free
    /\ res' = [res EXCEPT ![t] = OkStatus(running, port)]
    /\ pc' = [pc EXCEPT ![t] = "idle"]
    /\ UNCHANGED <<backendVars, lock, localVars, ncalls, procVars, setup>>

\* Lines 135-138.
get_backend_port(t) ==
    /\ pc[t] = "port"
    /\ lock = Free
    /\ res' = [res EXCEPT ![t] = OkPort("port", port)]
    /\ pc' = [pc EXCEPT ![t] = "idle"]
    /\ UNCHANGED <<backendVars, lock, localVars, ncalls, procVars, setup>>

\* --------------------------------------------------------- the sidecars
\* A live sidecar writes a line to stdout or stderr, or its stream fails.
SidecarOutput(p) ==
    /\ proc[p].state = "alive"
    /\ nlines < MaxLines
    /\ \E e \in OutputEvents : chan' = [chan EXCEPT ![p] = Append(@, e)]
    /\ nlines' = nlines + 1
    /\ UNCHANGED <<backendVars, lock, pc, localVars, res, ncalls, proc, bridge, emitted, setup>>

\* A live sidecar exits on its own with an exit code.
SidecarExit(p) ==
    /\ proc[p].state = "alive"
    /\ \E c \in ExitCodes :
          /\ proc' = [proc EXCEPT ![p].state = "exited", ![p].code = c]
          /\ chan' = [chan EXCEPT ![p] = Append(@, [kind |-> "Terminated", code |-> c, line |-> ""])]
    /\ UNCHANGED <<backendVars, lock, pc, localVars, res, ncalls, bridge, emitted, nlines, setup>>

\* ------------------------------------------------------- the event task
Emit(p, name, payload) == emitted' = [emitted EXCEPT ![p] = Append(@, [event |-> name, payload |-> payload])]

\* Faulty variant of event_task_output: stderr lines are emitted under the
\* stdout event name.
event_task_output_all_log(p) ==
    /\ bridge[p] = "recv"
    /\ chan[p] # <<>>
    /\ Head(chan[p]).kind # "Terminated"
    /\ LET e == Head(chan[p]) IN
          CASE e.kind \in {"Stdout", "Stderr"} -> Emit(p, "backend-log", FromUtf8Lossy(e.line))
            [] OTHER -> UNCHANGED emitted
    /\ chan' = [chan EXCEPT ![p] = Tail(@)]
    /\ UNCHANGED <<backendVars, lock, pc, localVars, res, ncalls, proc, bridge, nlines, setup>>

\* Lines 83-90, 99: rx.recv() yields an output event.
event_task_output(p) ==
    /\ bridge[p] = "recv"
    /\ chan[p] # <<>>
    /\ Head(chan[p]).kind # "Terminated"
    /\ LET e == Head(chan[p]) IN
          CASE e.kind = "Stdout" -> Emit(p, "backend-log", FromUtf8Lossy(e.line))
            [] e.kind = "Stderr" -> Emit(p, "backend-error", FromUtf8Lossy(e.line))
            [] OTHER -> UNCHANGED emitted
    /\ chan' = [chan EXCEPT ![p] = Tail(@)]
    /\ UNCHANGED <<backendVars, lock, pc, localVars, res, ncalls, proc, bridge, nlines, setup>>

\* Lines 91-92: rx.recv() yields Terminated; emit backend-terminated.
event_task_terminated(p) ==
    /\ bridge[p] = "recv"
    /\ chan[p] # <<>>
    /\ Head(chan[p]).kind = "Terminated"
    /\ Emit(p, "backend-terminated", Head(chan[p]).code)
    /\ chan' = [chan EXCEPT ![p] = Tail(@)]
    /\ bridge' = [bridge EXCEPT ![p] = "reset"]
    /\ UNCHANGED <<backendVars, lock, pc, localVars, res, ncalls, proc, nlines, setup>>

\* Faulty variant of event_task_reset: the `break` of line 97 is missing and
\* the task goes back to rx.recv().
event_task_reset_no_break(p) ==
    /\ bridge[p] = "reset"
    /\ lock = Free
    /\ running' = FALSE
    /\ child' = None
    /\ bridge' = [bridge EXCEPT ![p] = "recv"]
    /\ UNCHANGED <<port, lock, pc, localVars, res, ncalls, proc, chan, emitted, nlines, setup>>

\* Faulty variant of event_task_reset: the state is written without waiting
\* for the lock (the task uses a lock of its own).
event_task_reset_no_lock(p) ==
    /\ bridge[p] = "reset"
    /\ running' = FALSE
    /\ child' = None
    /\ bridge' = [bridge EXCEPT ![p] = "done"]
    /\ UNCHANGED <<port, lock, pc, localVars, res, ncalls, proc, chan, emitted, nlines, setup>>

\* Faulty variant of event_task_reset: line 95 is missing.
event_task_reset_keeps_running(p) ==
    /\ bridge[p] = "reset"
    /\ lock = Free
    /\ child' = None
    /\ bridge' = [bridge EXCEPT ![p] = "done"]
    /\ UNCHANGED <<port, running, lock, pc, localVars, res, ncalls, proc, chan, emitted, nlines, setup>>

\* Lines 94-97: lock; running = false; child = None; break (unlock).
event_task_reset(p) ==
    /\ bridge[p] = "reset"
    /\ lock = Free
    /\ running' = FALSE
    /\ child' = None
    /\ bridge' = [bridge EXCEPT ![p] = "done"]
    /\ UNCHANGED <<port, lock, pc, localVars, res, ncalls, proc, chan, emitted, nlines, setup>>

\* ------------------------------------------------------- the setup task
\* Lines 240-244: the 1 s sleep is over; lock (kept).
setup_lock ==
    /\ setup = "sleep"
    /\ lock = Free
    /\ lock' = SetupTask
    /\ setup' = "pick"
    /\ UNCHANGED <<backendVars, pc, localVars, res, ncalls, procVars>>

\* Lines 245-249: pick a port, backend.port = port; the guard is dropped.
setup_store ==
    /\ setup = "pick"
    /\ \E r \in PickResults : port' = UnwrapOr(r)
    /\ lock' = Free
    /\ setup' = "done"
    /\ UNCHANGED <<child, running, pc, localVars, res, ncalls, procVars>>

\* ---------------------------------------------------------------- system
CommandStep(t) ==
    \/ \E op \in Ops : Invoke(t, op)
    \/ start_backend_check(t)
    \/ start_backend_spawn_err(t)
    \/ start_backend_spawn_ok(t)
    \/ start_backend_commit(t)
    \/ start_backend_attach(t)
    \/ start_backend_return(t)
    \/ stop_backend_lock(t)
    \/ stop_backend_kill_ok(t)
    \/ stop_backend_kill_err(t)
    \/ stop_backend_finish(t)
    \/ get_backend_status(t)
    \/ get_backend_port(t)

EventTaskStep(p) ==
    \/ event_task_output(p)
    \/ event_task_terminated(p)
    \/ event_task_reset(p)

Next ==
    \/ \E t \in Callers : CommandStep(t)
    \/ \E p \in Procs : SidecarOutput(p)
    \/ \E p \in Procs : SidecarExit(p)
    \/ \E p \in Procs : EventTaskStep(p)
    \/ setup_lock
    \/ setup_store

Spec == Init /\ [][Next]_vars

TypeOK ==
    /\ child \in Procs \cup {None}
    /\ port \in 0..MaxU16
    /\ running \in BOOLEAN
    /\ lock \in {Free, SetupTask} \cup {CallerTask(t) : t \in Callers}
    /\ \A p \in Procs : proc[p].state \in {"unborn", "alive", "exited", "killed"}

\* ------------------------------------------------------------- scheduling
\* The tokio runtime polls every ready task, the Mutex hands the lock to a
\* waiter once it is free, and spawn, kill, pick_unused_port and sleep
\* return: a step of a command in flight, of an event task or of the setup
\* task that stays possible is eventually taken.  The host is not obliged to
\* invoke anything and a sidecar is not obliged to write or to exit.
Progress ==
    \/ \E t \in Callers :
        \/ start_backend_check(t)
        \/ start_backend_spawn_err(t)
        \/ start_backend_spawn_ok(t)
        \/ start_backend_commit(t)
        \/ start_backend_attach(t)
        \/ start_backend_return(t)
        \/ stop_backend_lock(t)
        \/ stop_backend_kill_ok(t)
        \/ stop_backend_kill_err(t)
        \/ stop_backend_finish(t)
        \/ get_backend_status(t)
        \/ get_backend_port(t)
    \/ \E p \in Procs : EventTaskStep(p)
    \/ setup_lock
    \/ setup_store

\* Next with the host invoking at most MaxFairCalls commands.
FairNext ==
    \/ \E t \in Callers, op \in Ops : ncalls < MaxFairCalls /\ Invoke(t, op)
    \/ Progress
    \/ \E p \in Procs : SidecarOutput(p)
    \/ \E p \in Procs : SidecarExit(p)

FairSpec == Init /\ [][FairNext]_vars /\ WF_vars(Progress)

\* ================================================================ claims
TerminatedEvents(p) == SelectSeq(emitted[p], LAMBDA e : e.event = "backend-terminated")
ValidPort(x) == x \in 1..MaxU16
\* Slot t takes a step from program point a to program point b.
Moves(t, a, b) == pc[t] = a /\ pc'[t] = b

\* C1: whenever the state lock is free, running is true exactly when the
\* child handle is present.
C1_RunningIffChild == lock = Free => (running <=> child # None)

\* C2: at most one sidecar spawned by the supervisor is alive at any time
\* (so concurrent starts end with one process and one port).
C2_SingleSidecar == Cardinality(Alive) <= 1

\* C3: a stop whose kill fails returns the error and still leaves
\* running = false and no handle.
C3_KillErrorResetsState ==
    [][\A t \in Callers :
          (Moves(t, "stop_kill", "idle") /\ ~res'[t].ok) =>
              (res'[t].op = "stop" /\ running' = FALSE /\ child' = None)]_vars

\* C4: once a sidecar has exited on its own, its event task eventually
\* finishes with running = false and with exactly one backend-terminated
\* event, carrying the exit code, emitted for that process; never two.
C4_SelfExitReported ==
    /\ \A p \in Procs :
          (proc[p].state = "exited" /\ bridge[p] # "done") ~>
              (/\ bridge[p] = "done"
               /\ running = FALSE
               /\ TerminatedEvents(p) = <<[event |-> "backend-terminated", payload |-> proc[p].code]>>)
    /\ [](\A p \in Procs : Len(TerminatedEvents(p)) <= 1)

\* The sidecar exited with code 1 after the only command ever invoked, a
\* start; its event task reported it and reset the state.
C4_Witness ==
    \E p \in Procs :
        /\ ncalls = 1
        /\ proc[p].state = "exited" /\ proc[p].code = 1
        /\ bridge[p] = "done"
        /\ running = FALSE
        /\ TerminatedEvents(p) = <<[event |-> "backend-terminated", payload |-> 1]>>

\* C5: a start that observes running = true returns the stored port, which is
\* the port the start that recorded the current handle returned (that
\* process's --port argument), spawns nothing, attaches no event task and
\* leaves handle, port and running unchanged.
C5_StartWhenRunning ==
    [][\A t \in Callers :
          (pc[t] = "start_check" /\ pc'[t] # "start_check" /\ running) =>
              /\ pc'[t] = "idle"
              /\ res'[t] = OkPort("start", port)
              /\ child # None => res'[t].port = proc[child].arg
              /\ UNCHANGED <<child, port, running, proc, bridge>>]_vars

\* C6: when stop returns Ok, running = false and the handle is absent; a stop
\* that finds no handle kills nothing, cannot fail and leaves the port alone.
C6_StopResets ==
    [][\A t \in Callers :
          /\ Moves(t, "stop_finish", "idle") =>
                /\ res'[t] = OkUnit("stop")
                /\ running' = FALSE /\ child' = None
                /\ port' = port /\ proc' = proc /\ chan' = chan
          /\ (pc[t] = "stop_lock" /\ pc'[t] # "stop_lock" /\ child = None) =>
                /\ pc'[t] = "stop_finish"
                /\ port' = port /\ proc' = proc /\ chan' = chan]_vars

\* A stop found the handle of a live sidecar, killed it and returned Ok.
C6_Witness ==
    \E t \in Callers, p \in Procs :
        /\ pc[t] = "idle" /\ res[t] = OkUnit("stop")
        /\ proc[p].state = "killed"
        /\ running = FALSE /\ child = None

\* C7: a start whose spawn fails returns an error and writes nothing; start
\* writes the state only in its commit, after a successful spawn, and then
\* sets handle, port and running = true together.
C7_SpawnErrorLeavesState ==
    [][\A t \in Callers :
          /\ Moves(t, "start_spawn", "idle") =>
                (~res'[t].ok /\ res'[t].op = "start" /\ UNCHANGED backendVars)
          /\ (pc[t] \in {"start_check", "start_spawn", "start_attach", "start_sleep"}
                /\ pc'[t] # pc[t]) => UNCHANGED backendVars
          /\ Moves(t, "start_commit", "start_attach") =>
                /\ lchild[t] # None /\ proc[lchild[t]].state # "unborn"
                /\ proc[lchild[t]].arg = lport[t]
                /\ child' = lchild[t] /\ port' = lport[t] /\ running' = TRUE]_vars

\* A start failed to spawn while the state still was the initial one.
C7_Witness ==
    \E t \in Callers :
        /\ pc[t] = "idle" /\ res[t].op = "start" /\ ~res[t].ok
        /\ child = None /\ port = DefaultPort /\ running = FALSE
        /\ Spawned = {}

\* C8: the port field changes only in the commit of a start, and only when
\* running is false.
C8_PortOnlyByFreshStart ==
    [][port' # port =>
          (running = FALSE /\ \E t \in Callers : Moves(t, "start_commit", "start_attach"))]_vars

\* C9: status() and port() return the stored running flag and port and
\* change nothing: no state, no lock, no process, no channel, no event.
C9_GettersReadOnly ==
    [][\A t \in Callers :
          /\ Moves(t, "status", "idle") =>
                /\ res'[t] = OkStatus(running, port)
                /\ UNCHANGED <<backendVars, lock, proc, chan, bridge, emitted>>
          /\ Moves(t, "port", "idle") =>
                /\ res'[t] = OkPort("port", port)
                /\ UNCHANGED <<backendVars, lock, proc, chan, bridge, emitted>>]_vars

\* status() reported running = true while the state held no handle.
C9_Witness ==
    \E t \in Callers :
        /\ pc[t] = "idle" /\ res[t] = OkStatus(TRUE, port)
        /\ running /\ child = None

\* C10: every port a start picks is one the allocator returned or the default
\* 8000; every port stored, passed to a sidecar or returned by start, status
\* or port is in 1..65535; a start fails only with a sidecar error.
C10_PortsValid ==
    /\ ValidPort(port)
    /\ \A p \in Spawned : proc[p].arg \in AllocPorts \cup {DefaultPort} /\ ValidPort(proc[p].arg)
    /\ \A t \in Callers :
          /\ lport[t] # 0 => lport[t] \in AllocPorts \cup {DefaultPort}
          /\ (res[t].ok /\ res[t].op \in {"start", "status", "port"}) => ValidPort(res[t].port)
          /\ (~res[t].ok /\ res[t].op = "start") =>
                res[t].err \in {"Failed to create sidecar command", "Failed to spawn sidecar"}

\* The allocator failed and the start went on with the default port: the
\* sidecar runs with --port 8000 and the start returned Ok(8000).
C10_Witness ==
    \E t \in Callers, p \in Procs :
        /\ pc[t] = "idle" /\ res[t] = OkPort("start", DefaultPort)
        /\ proc[p].arg = DefaultPort /\ child = p /\ port = DefaultPort /\ running

\* Program points at which a command is inside spawn(), kill() or sleep(),
\* and at which the setup task is inside sleep() or pick_unused_port().
CommandIoPoints == {"start_spawn", "start_sleep", "stop_kill"}
SetupIoPoints == {"sleep", "pick"}

\* C11: a task that holds the state lock is not performing a spawn, a kill,
\* a port allocation or a sleep.
C11_NoIoUnderLock ==
    /\ \A t \in Callers : lock = CallerTask(t) => pc[t] \notin CommandIoPoints
    /\ lock = SetupTask => setup \notin SetupIoPoints

\* The step is taken by the task that holds the lock.
HolderSteps ==
    \/ \E t \in Callers : lock = CallerTask(t) /\ pc'[t] # pc[t]
    \/ lock = SetupTask /\ setup' # setup

\* C12: the state is read and written only under the one lock.  While a task
\* holds the lock only that task takes the lock's next step or changes
\* handle, port or running; the lock is free only when it is taken or when a
\* critical section runs as a whole; and the running check of start and the
\* two getters read the state with no critical section of a writer open, so
\* a status() result is the state the last completed critical section left.
C12_OneLock ==
    [][/\ (lock # Free /\ (lock' # lock \/ backendVars' # backendVars)) => HolderSteps
       /\ (lock = Free /\ lock' # Free) =>
             \/ \E t \in Callers : Moves(t, "stop_lock", pc'[t]) /\ pc'[t] # "stop_lock" /\ lock' = CallerTask(t)
             \/ setup = "sleep" /\ setup' = "pick" /\ lock' = SetupTask
       /\ \A t \in Callers :
             /\ Moves(t, "status", "idle") =>
                   lock = Free /\ lock' = Free /\ res'[t] = OkStatus(running, port)
             /\ Moves(t, "port", "idle") =>
                   lock = Free /\ lock' = Free /\ res'[t] = OkPort("port", port)
             /\ (pc[t] = "start_check" /\ pc'[t] # "start_check") =>
                   lock = Free /\ lock' = Free
             /\ Moves(t, "start_commit", "start_attach") => lock = Free /\ lock' = Free
       /\ \A p \in Procs :
             (bridge[p] = "reset" /\ bridge'[p] # "reset") => lock = Free /\ lock' = Free]_vars

\* A status query and an event task's reset both wait while stop_backend
\* holds the lock across its kill.
C12_Witness ==
    \E t, u \in Callers, p \in Procs :
        /\ lock = CallerTask(u) /\ pc[u] = "stop_kill"
        /\ pc[t] = "status"
        /\ bridge[p] = "reset"

\* C13: on the Terminated notification the event task first emits
\* backend-terminated with the exit code (writing no state), then under the
\* lock clears the handle and sets running = false, then leaves its loop;
\* after that it receives nothing, emits nothing and takes no further step.
C13_TerminationOrder ==
    [][\A p \in Procs :
          /\ (bridge[p] = "recv" /\ bridge'[p] # "recv") =>
                /\ bridge'[p] = "reset"
                /\ Head(chan[p]).kind = "Terminated"
                /\ emitted'[p] = Append(emitted[p],
                        [event |-> "backend-terminated", payload |-> Head(chan[p]).code])
                /\ UNCHANGED backendVars
          /\ (bridge[p] = "reset" /\ bridge'[p] # "reset") =>
                /\ bridge'[p] = "done"
                /\ lock = Free
                /\ child' = None /\ running' = FALSE
                /\ emitted'[p] = emitted[p]
          /\ (bridge'[p] = "done" /\ bridge[p] # "done") => bridge[p] = "reset"
          /\ bridge[p] = "done" =>
                bridge'[p] = "done" /\ emitted'[p] = emitted[p] /\ chan'[p] = chan[p]]_vars

\* An event task has left its loop: its last event is backend-terminated,
\* and the state it reset has since been written again by another start.
C13_Witness ==
    \E p \in Procs :
        /\ bridge[p] = "done"
        /\ emitted[p] # <<>>
        /\ emitted[p][Len(emitted[p])].event = "backend-terminated"
        /\ running /\ child # None /\ child # p

\* C14: the commit of a start overwrites whatever handle the state holds.
\* When another start committed first, the state afterwards holds the
\* handle and port of the second commit, and the first process is neither
\* killed nor told: it stays as it was, with its handle in the state no more.
C14_SecondCommitWins ==
    [][\A t \in Callers :
          (Moves(t, "start_commit", "start_attach") /\ child # None /\ child # lchild[t]) =>
              /\ running
              /\ child' = lchild[t] /\ port' = lport[t] /\ running' = TRUE
              /\ proc'[child] = proc[child] /\ chan'[child] = chan[child]]_vars

\* Two starts, the only commands invoked, have both committed: both passed
\* the running check before either commit.  The state holds the second
\* one's handle and port; the first one's sidecar is alive and unrecorded.
C14_Witness ==
    \E t, u \in Callers :
        /\ ncalls = 2 /\ t # u
        /\ pc[t] \in {"start_attach", "start_sleep"}
        /\ pc[u] \in {"start_attach", "start_sleep"}
        /\ running /\ child = lchild[t] /\ port = lport[t]
        /\ lchild[u] # child /\ lport[u] # port
        /\ proc[lchild[t]].state = "alive" /\ proc[lchild[u]].state = "alive"

\* The events due for one received CommandEvent e whose line reads as text.
LineEvents(e, text) ==
    CASE e.kind = "Stdout" -> <<[event |-> "backend-log", payload |-> text]>>
      [] e.kind = "Stderr" -> <<[event |-> "backend-error", payload |-> text]>>
      [] OTHER -> <<>>

\* The event task of p handles its channel in order: a received output event
\* adds exactly the events due for it, read with Text, and changes neither
\* handle, port nor running; the Terminated notification is the last thing
\* in the channel, and nothing is emitted after backend-terminated.
LinesHandled(p, Text(_)) ==
    /\ (bridge[p] = "recv" /\ bridge'[p] = "recv" /\ chan[p] # <<>> /\ chan'[p] = Tail(chan[p])) =>
          /\ emitted'[p] = emitted[p] \o LineEvents(Head(chan[p]), Text(Head(chan[p]).line))
          /\ UNCHANGED backendVars
    /\ (bridge[p] = "recv" /\ bridge'[p] = "reset") => chan'[p] = <<>>
    /\ TerminatedEvents(p) # <<>> => emitted'[p] = emitted[p]
    /\ emitted'[p] # emitted[p] => bridge[p] = "recv"

C16_ResetOwnSidecarOnly ==
    [][\A p \in Procs :
          (/\ bridge[p] = "reset" /\ bridge'[p] = "done"
           /\ child # None /\ child # p
           /\ proc[child].state = "alive") =>
              (child' = child /\ running' = running)]_vars

\* C17: whenever the state holds a handle with running true, the stored port
\* is the port passed as --port to the process the handle refers to.
C17_PortOfRecordedSidecar ==
    (running /\ child # None) => port = proc[child].arg

\* C18: stop is final for a start already in flight. If a start call has
\* passed its running check (it is about to spawn or to commit) when a stop
\* call has not yet taken the lock, then from the moment that stop has
\* returned success, and as long as no further call is invoked, running is
\* false and no sidecar is alive.
C18_StopIsFinal ==
    \A t, u \in Callers :
        []((/\ t # u
            /\ ncalls = 2
            /\ pc[t] \in {"start_spawn", "start_commit"}
            /\ pc[u] = "stop_lock")
           => []((ncalls = 2 /\ pc[u] = "idle" /\ res[u] = OkUnit("stop"))
                   => (~running /\ Alive = {})))

\* C19: when a start call that spawned a process returns Ok(port) and it is
\* the only call ever made (so no stop was issued), the state at the moment
\* of return has running true, holds the handle of the spawned process and,
\* unless the setup task has stored its own port (C8, C17), stores the
\* returned port.
C19_SuccessMeansRunning ==
    [][\A t \in Callers :
          (Moves(t, "start_sleep", "idle") /\ ncalls = 1) =>
              /\ res'[t] = OkPort("start", lport[t])
              /\ running
              /\ child = lchild[t]
              /\ (setup # "done" => port = lport[t])]_vars

\* The channel of p holds, or its event task has received, the termination
\* notification.
TerminationDelivered(p) ==
    \/ \E i \in 1..Len(chan[p]) : chan[p][i].kind = "Terminated"
    \/ bridge[p] = "reset"

====
